---- MODULE Spec2Model ----
(***************************************************************************)
(* Model of the agent orchestration engine of the e-commerce chat          *)
(* assistant: backend/agent/router.py (detect_intent) and                  *)
(* backend/agent/orchestrator.py (handle_user_message and the bounded      *)
(* tool-calling loop of handle_user_message_agentic), with                 *)
(* backend/guardrails.py (apply_guardrails), the /chat endpoint of         *)
(* backend/app.py and backend/tools/returns_tool.py.                       *)
(*                                                                         *)
(* Spec: one behaviour is one call of handle_user_message.  The reasoning  *)
(* model, the tools and the retrieval answerer are the environment: each   *)
(* of their outcomes (a tool-call request, final text, a malformed         *)
(* response, an exception) is a nondeterministic choice.                   *)
(* SpecGuard, SpecRouter, SpecReturns: apply_guardrails, detect_intent and *)
(* check_return_eligibility_tool applied to one input.                     *)
(* SpecChat: the requests of one session served by chat_endpoint.          *)
(***************************************************************************)
EXTENDS Integers, Sequences, FiniteSets, TLC

\* ------------------------------------------------------------------ bounds
\* The reasoning model may vary its tool-call requests for its first
\* MaxVaried requests; after that it keeps repeating its last request
\* (or answers with text, a malformed response, or an exception).
MaxVaried == 2

\* ------------------------------------------------------- program constants
\* for iteration in range(10)
MaxIterations == 10
\* "iterations": 10 in the max-iterations result
ReportedCapIterations == 10

PRIVATE_INTENTS == {"order_status", "return_eligibility", "refund", "warranty_status"}

PUBLIC_INTENTS ==
  {"product_search", "policy_question", "general_rag", "chitchat", "date_query",
   "troubleshooting"}

\* Python's None, for a value that is otherwise a string
None == "<None>"

\* Python's None, for a value that is otherwise a dict
NoneDict == [isNone |-> TRUE]

IsDict(d) == "isNone" \notin DOMAIN d

\* ---------------------------------------------------------------- messages
\* A message is the sequence of the phrases of its text, in the order in
\* which they occur; <<>> is the empty text.  Only the phrases that some
\* keyword test of the program can see are kept apart.

\* whitespace-only phrases
Whitespace == {"  "}

\* str.lower()
Lower(p) ==
  CASE p = "ORD1002" -> "ord1002"
    [] p = "Ord1001" -> "ord1001"
    [] p = "BOMB"    -> "bomb"
    [] p = "Hello"   -> "hello"
    [] p = "Refund"  -> "refund"
    [] OTHER         -> p

\* the phrase at the start of a text, after str.strip()
LStrip(p) == IF p = " hi" THEN "hi" ELSE p

\* user_message.strip().lower(): surrounding whitespace is dropped, inner
\* whitespace separates phrases and matches no keyword
Text(m) ==
  LET body == SelectSeq(m, LAMBDA p : p \notin Whitespace) IN
    [i \in DOMAIN body |-> IF i = 1 THEN LStrip(Lower(body[i])) ELSE Lower(body[i])]

\* SubPhrases(p) are the keywords that occur inside phrase p as substrings.
SubPhrases(p) ==
  CASE p = "where is my order" -> {"order"}
    [] p = "thanks"            -> {"thank"}
    [] p = "thank you"         -> {"thank"}
    [] p = "return policy"     -> {"return", "policy"}
    [] p = "shipping"          -> {"hi"}
    [] p = " hi"               -> {"hi"}
    [] p = "headphones"        -> {"headphone", "phone"}
    [] p = "begun"             -> {"gun"}
    [] p = "sexual"            -> {"sex"}
    [] OTHER                   -> {}

\* kw in lowered
Has(m, kw) ==
  LET text == Text(m) IN
    \E i \in DOMAIN text : kw = text[i] \/ kw \in SubPhrases(text[i])

AnyOf(m, kws) == \E kw \in kws : Has(m, kw)

\* the tokens ORDER_ID_PATTERN matches, lower-cased
OrderIdTokens == {"ord1001", "ord1002"}

Upper(tok) ==
  CASE Lower(tok) = "ord1001" -> "ORD1001"
    [] Lower(tok) = "ord1002" -> "ORD1002"
    [] OTHER                  -> tok

\* The requests of src/test/test_agent.py and of the chitchat / date /
\* private-intent branches of the orchestrator.
Messages ==
  { <<"where is my order", "ord1002">>,               \* Where is my order ORD1002?
    <<"status", "order">>,                            \* What is the status of my order?
    <<"return", "laptop", "order", "ord1001">>,       \* Can I return my laptop order ORD1001?
    <<"laptop", "order", "ord1001", "under", "warranty">>,
    <<"refund">>,                                     \* I want a refund
    <<"suggest", "laptop", "under">>,                 \* Can you suggest some laptops under 60000?
    <<"return policy">>,                              \* What is your return policy on headphones?
    <<"not turning on">>,                             \* My device is not turning on.
    <<"shipping">>,                                   \* Do you offer free shipping?
    <<"hello">>,
    <<"how are you">>,
    <<"who are you">>,
    <<"what can you do">>,
    <<"thanks">>,
    <<"hello", "refund">>,                            \* hello, I want a refund
    <<"what day is it">> }

\* ------------------------------------------------------------------ router
\* ORDER_ID_PATTERN.search(text): the first match, upper-cased
extract_order_id(m) ==
  LET hits == { i \in DOMAIN m : Lower(m[i]) \in OrderIdTokens } IN
    IF hits = {} THEN None
    ELSE Upper(m[CHOOSE i \in hits : \A k \in hits : i <= k])

is_chitchat(m) ==
  AnyOf(m, {" hi", "hello", " hey", "how are you", "how r you", "who are you",
            "what can you do", "thanks", "thank you", "good morning", "good evening"})

is_troubleshooting_issue(m) ==
  AnyOf(m, {"not turning on", "won't turn on", "does not turn on", "doesn't turn on",
            "won't power on", "no sound", "not working", "not working properly",
            "stopped working", "stop working", "broken", "issue with", "problem with",
            "overheating"})

detect_category(m) ==
  IF Has(m, "laptop") THEN "laptop"
  ELSE IF AnyOf(m, {"headphone", "headphones", "headset"}) THEN "headphones"
  ELSE IF AnyOf(m, {"mouse", "mice"}) THEN "mouse"
  ELSE IF AnyOf(m, {"keyboard", "key board"}) THEN "keyboard"
  ELSE IF AnyOf(m, {"phone", "mobile", "smartphone"}) THEN "phone"
  ELSE None

SearchVerbs ==
  {"suggest", "recommend", "show me", "find", "looking for", "under", "below",
   "tell me about", "have in store", "available", "all the", "sell", "you sell",
   "you guys sell", "best", "good for", "suitable for", "ideal for"}

CatalogPhrases ==
  {"catalog", "catalogue", "product catalog", "product catalogue",
   "what all you offer", "what all u offer", "what do you offer", "what do u offer",
   "what all you guys offer", "what all u guys offer", "what all you have",
   "what all u have"}

SellPhrases ==
  {"products do you sell", "what all products", "what products you sell",
   "what all products u guys sell", "what all products do you have",
   "you sell products", "sell products", "all products"}

\* Variant: chitchat is tested before troubleshooting.
Intent_ChitchatFirst(m) ==
  IF is_chitchat(m) THEN "chitchat"
  ELSE IF is_troubleshooting_issue(m) THEN "troubleshooting"
  ELSE IF AnyOf(m, {"date today", "today's date", "what day is it"}) THEN "date_query"
  ELSE IF \/ Has(m, "where is my order")
          \/ Has(m, "track my order")
          \/ (Has(m, "order") /\ Has(m, "status"))
          \/ (Has(m, "order") /\ Has(m, "tracking"))
          \/ (extract_order_id(m) # None /\ Has(m, "status"))
       THEN "order_status"
  ELSE IF AnyOf(m, {"return policy", "shipping policy", "refund policy", "policy"})
       THEN "policy_question"
  ELSE IF AnyOf(m, {"refund", "money back", "get my money", "refund status"})
       THEN "refund"
  ELSE IF AnyOf(m, {"return", "exchange", "replace", "replacement"})
       THEN "return_eligibility"
  ELSE IF AnyOf(m, {"warranty", "guarantee"}) THEN "warranty_status"
  ELSE IF detect_category(m) # None /\ AnyOf(m, SearchVerbs) THEN "product_search"
  ELSE IF AnyOf(m, CatalogPhrases) THEN "product_search"
  ELSE IF AnyOf(m, SellPhrases) \/ (Has(m, "products") /\ Has(m, "sell"))
       THEN "product_search"
  ELSE "general_rag"

Intent(m) ==
  IF is_troubleshooting_issue(m) THEN "troubleshooting"
  ELSE IF is_chitchat(m) THEN "chitchat"
  ELSE IF AnyOf(m, {"date today", "today's date", "what day is it"}) THEN "date_query"
  ELSE IF \/ Has(m, "where is my order")
          \/ Has(m, "track my order")
          \/ (Has(m, "order") /\ Has(m, "status"))
          \/ (Has(m, "order") /\ Has(m, "tracking"))
          \/ (extract_order_id(m) # None /\ Has(m, "status"))
       THEN "order_status"
  ELSE IF AnyOf(m, {"return policy", "shipping policy", "refund policy", "policy"})
       THEN "policy_question"
  ELSE IF AnyOf(m, {"refund", "money back", "get my money", "refund status"})
       THEN "refund"
  ELSE IF AnyOf(m, {"return", "exchange", "replace", "replacement"})
       THEN "return_eligibility"
  ELSE IF AnyOf(m, {"warranty", "guarantee"}) THEN "warranty_status"
  ELSE IF detect_category(m) # None /\ AnyOf(m, SearchVerbs) THEN "product_search"
  ELSE IF AnyOf(m, CatalogPhrases) THEN "product_search"
  ELSE IF AnyOf(m, SellPhrases) \/ (Has(m, "products") /\ Has(m, "sell"))
       THEN "product_search"
  ELSE "general_rag"

\* Variant: the order id is extracted for every label.
detect_intent_SlotsAlways(m) ==
  LET i == Intent(m) IN
    [intent |-> i, order_id |-> extract_order_id(m),
     category |-> IF i \in {"chitchat", "date_query"} THEN None ELSE detect_category(m)]

detect_intent(m) ==
  LET i == Intent(m) IN
  IF i \in {"chitchat", "date_query"}
    THEN [intent |-> i, order_id |-> None, category |-> None]
    ELSE [intent |-> i, order_id |-> extract_order_id(m),
          category |-> IF i = "product_search" /\ ~(detect_category(m) # None
                                                     /\ AnyOf(m, SearchVerbs))
                         THEN None ELSE detect_category(m)]

\* ------------------------------------------------------------- environment
\* Which credentials the process environment holds.
Environments == SUBSET {"GEMINI_API_KEY", "GOOGLE_API_KEY"}

UserIds == {None, "U001"}

\* today = today or get_today_str(); the date a model may put in its own
\* tool arguments is a different one.
Today == "2025-12-05"

ModelToday == "2024-01-01"

FinalTexts == {"Your order ORD1002 has shipped.", "You are welcome."}

DateTools == {"check_return_eligibility", "check_refund_possibility", "check_warranty_status"}

\* keys of tool_map in execute_tool_call
ToolMapNames ==
  {"find_orders_by_user_id", "get_order_status", "search_products",
   "check_return_eligibility", "check_refund_possibility", "check_warranty_status",
   "get_troubleshooting_steps"}

\* tools whose result envelope has a "message" field
MessageTools ==
  {"find_orders_by_user_id", "get_order_status", "search_products",
   "get_troubleshooting_steps"}

\* The tool names the reasoning model requests in this model; the last one
\* is not in the registry.
RequestedTools ==
  {"get_order_status", "check_return_eligibility", "get_troubleshooting_steps",
   "search_policy_docs", "lookup_weather"}

\* The argument mappings the reasoning model sends with a request.
ArgsOf(name) ==
  CASE name = "check_return_eligibility" ->
         {[order_id |-> "ORD1001"], [order_id |-> "ORD1001", today |-> ModelToday]}
    [] name = "search_policy_docs" -> {[query |-> <<"shipping policy">>]}
    [] name = "get_troubleshooting_steps" ->
         {[product_type |-> "laptop", issue |-> "not turning on"],
          [product_type |-> "laptop", issue |-> "screen flickers"]}
    [] OTHER -> {[order_id |-> "ORD1002"]}

\* A response of chat.send_message, as the loop reads it.
FunctionCall(name, args) == [kind |-> "function_call", name |-> name, args |-> args, text |-> None]

TextPart(t) == [kind |-> "text", name |-> None, args |-> NoneDict, text |-> t]

Malformed(k) == [kind |-> k, name |-> None, args |-> NoneDict, text |-> None]

\* no candidates; no content parts; a first part with neither a function
\* call nor (non-empty) text
MalformedKinds == {"no_candidates", "no_parts", "other_part"}

NoResponse == Malformed("none")

\* answer_with_rag: get_llm raises without GEMINI_API_KEY; the retriever and
\* the generation call can fail too.
RagOutcomes(e) == IF "GEMINI_API_KEY" \in e THEN {"ok", "raise"} ELSE {"raise"}

\* answer_with_rag(question): the answer generated from the documents
\* retrieved for the question
RagText(question) ==
  IF question = <<>> THEN "rag answer"
  ELSE CASE question[1] = "shipping policy" -> "rag answer on the shipping policy"
         [] question[1] = "shipping"        -> "rag answer on shipping"
         [] question[1] = "return policy"   -> "rag answer on the return policy"
         [] question[1] = "not turning on"  -> "rag answer on a device not turning on"
         [] OTHER                           -> "rag answer"

RagAnswer(question) == [answer |-> RagText(question), sources |-> <<"policies.md">>]

\* ---------------------------------------------------------------- dispatch
\* execute_tool_call, lines 65-67: today is added to the argument mapping
\* (the same dict object that was appended to tool_calls_log).
InjectToday(name, args, today) ==
  IF name \in DateTools /\ "today" \notin DOMAIN args
    THEN [k \in DOMAIN args \cup {"today"} |-> IF k = "today" THEN today ELSE args[k]]
    ELSE args

UnknownToolError(name) ==
  CASE name = "lookup_weather" -> "Unknown tool: lookup_weather"
    [] OTHER                   -> "Unknown tool"

\* _infer_issue_key of troubleshooting_tool.py
_infer_issue_key(product_type, issue) ==
  CASE issue = "not turning on" -> "not_turning_on"
    [] issue = "no sound"       -> "no_sound"
    [] issue = "not working"    -> "not_working"
    [] OTHER                    -> None

NoStepsMessage == "No troubleshooting steps found"

\* GetTroubleshootingStepsTool.invoke
get_troubleshooting_steps(args) ==
  LET issue_key == _infer_issue_key(args.product_type, args.issue) IN
    IF issue_key # None
      THEN [found |-> TRUE, product_type |-> args.product_type, issue_key |-> issue_key,
            message |-> "Here are some troubleshooting steps"]
      ELSE [found |-> FALSE, product_type |-> args.product_type, issue_key |-> None,
            message |-> NoStepsMessage]

ToolEnvelope(name, args) ==
  IF name = "get_troubleshooting_steps" THEN get_troubleshooting_steps(args)
  ELSE IF name \in MessageTools
    THEN [found |-> TRUE, message |-> "Order ORD1002 is currently shipped."]
    ELSE [found |-> TRUE, reason |-> "Order ORD1001 is within the 7-day return window."]

\* Variant: tool_map[tool_name] instead of tool_map.get(tool_name), so that
\* a name outside the registry raises KeyError before the try block.
execute_tool_call_KeyError(tool_name, tool_args, today, behaviour) ==
  IF tool_name = "search_policy_docs"
    THEN IF behaviour = "raise"
           THEN [raised |-> TRUE, result |-> NoneDict]
           ELSE [raised |-> FALSE,
                 result |-> [answer |-> RagAnswer(tool_args.query).answer,
                             sources |-> RagAnswer(tool_args.query).sources]]
  ELSE IF tool_name \notin ToolMapNames
    THEN [raised |-> TRUE, result |-> NoneDict]
  ELSE IF behaviour = "raise"
    THEN [raised |-> FALSE, result |-> [error |-> "tool raised"]]
    ELSE [raised |-> FALSE,
          result |-> ToolEnvelope(tool_name, InjectToday(tool_name, tool_args, today))]

\* execute_tool_call(tool_name, tool_args, today); behaviour is what the
\* tool (or the retrieval answerer) does when invoked: "ok" or "raise".
\* raised = TRUE: the exception leaves execute_tool_call.
execute_tool_call(tool_name, tool_args, today, behaviour) ==
  IF tool_name = "search_policy_docs"
    THEN IF behaviour = "raise"
           THEN [raised |-> TRUE, result |-> NoneDict]
           ELSE [raised |-> FALSE,
                 result |-> [answer |-> RagAnswer(tool_args.query).answer,
                             sources |-> RagAnswer(tool_args.query).sources]]
  ELSE IF tool_name \notin ToolMapNames
    THEN [raised |-> FALSE, result |-> [error |-> UnknownToolError(tool_name)]]
  ELSE IF behaviour = "raise"
    THEN [raised |-> FALSE, result |-> [error |-> "tool raised"]]
    ELSE [raised |-> FALSE,
          result |-> ToolEnvelope(tool_name, InjectToday(tool_name, tool_args, today))]

ToolBehaviours(name, e) ==
  IF name = "search_policy_docs" THEN RagOutcomes(e)
  ELSE IF name \in ToolMapNames THEN {"ok", "raise"}
  ELSE {"ok"}

\* What send_message is called with: the prompt and user question (line
\* 318), or the function response carrying a tool result (lines 358-367).
NothingSent == [kind |-> "none"]

UserTurn(m) == [kind |-> "user", text |-> m]

FunctionResponse(name, res) == [kind |-> "function_response", name |-> name, result |-> res]

\* -------------------------------------------------------------- guardrails
BLOCKED_KEYWORDS ==
  {"suicide", "kill myself", "harm myself", "bomb", "terrorist", "gun", "weapon"}

DATING_KEYWORDS ==
  {"date a girl", "date a boy", "date someone", "dating advice", "pick up line",
   "pickup line", "pick-up line", "flirt with", "flirting with", "crush on",
   "get a girlfriend", "get a boyfriend", "romantic advice", "seduce"}

SEXUAL_KEYWORDS == {"sex", "sexual", "nsfw", "naughty", "hot girl", "hot boy", "horny"}

ROMANTIC_PHRASES ==
  {"in love with my laptop", "in love with her", "in love with him",
   "nights are going great"}

ECOMMERCE_KEYWORDS ==
  {"order", "refund", "return", "exchange", "replacement", "warranty", "shipping",
   "delivery", "tracking", "cart", "checkout", "payment", "invoice", "product",
   "products", "laptop", "headphone", "headphones", "device", "support", "policy",
   "store", "company", "status", "catalog", "catalogue", "catalog list",
   "product list", "offer", "offers", "setup", "bundle"}

CHITCHAT_KEYWORDS ==
  {"hi", "hello", "hey", "how are you", "how r you", "good morning", "good evening",
   "thank you", "thanks", "oh nice", "ohh nice", "nice", "cool", "great", "awesome",
   "ok", "okay"}

_contains_inappropriate_content(m) ==
  IF AnyOf(m, DATING_KEYWORDS) THEN TRUE
  ELSE IF AnyOf(m, SEXUAL_KEYWORDS) THEN TRUE
  ELSE IF AnyOf(m, ROMANTIC_PHRASES) THEN TRUE
  ELSE FALSE

_is_clearly_out_of_domain(m) ==
  IF AnyOf(m, ECOMMERCE_KEYWORDS) THEN FALSE
  ELSE IF AnyOf(m, CHITCHAT_KEYWORDS) THEN FALSE
  ELSE TRUE

GuardrailResult(allowed, message, reason) ==
  [allowed |-> allowed, message |-> message, reason |-> reason]

EmptyMessage         == "Please enter a question related to your orders"
SafetyMessage        == "I'm not able to help with that topic"
InappropriateMessage == "I can't assist with romantic, sexual, or personal dating requests"
OutOfDomainMessage   == "I'm designed to assist with our online store"

\* the mutant of apply_guardrails that tests the domain before safety
apply_guardrails_DomainFirst(m) ==
  IF Text(m) = <<>> THEN GuardrailResult(FALSE, EmptyMessage, "empty")
  ELSE IF ~_is_clearly_out_of_domain(m) THEN GuardrailResult(TRUE, None, None)
  ELSE IF \E bad \in BLOCKED_KEYWORDS : Has(m, bad)
    THEN GuardrailResult(FALSE, SafetyMessage, "safety")
  ELSE IF _contains_inappropriate_content(m)
    THEN GuardrailResult(FALSE, InappropriateMessage, "inappropriate")
  ELSE GuardrailResult(FALSE, OutOfDomainMessage, "out_of_domain")

\* the mutant of apply_guardrails that lets chitchat through before the
\* inappropriate-content rule
apply_guardrails_ChitchatFirst(m) ==
  IF Text(m) = <<>> THEN GuardrailResult(FALSE, EmptyMessage, "empty")
  ELSE IF \E bad \in BLOCKED_KEYWORDS : Has(m, bad)
    THEN GuardrailResult(FALSE, SafetyMessage, "safety")
  ELSE IF AnyOf(m, CHITCHAT_KEYWORDS) THEN GuardrailResult(TRUE, None, None)
  ELSE IF _contains_inappropriate_content(m)
    THEN GuardrailResult(FALSE, InappropriateMessage, "inappropriate")
  ELSE IF _is_clearly_out_of_domain(m)
    THEN GuardrailResult(FALSE, OutOfDomainMessage, "out_of_domain")
  ELSE GuardrailResult(TRUE, None, None)

apply_guardrails(m) ==
  IF Text(m) = <<>> THEN GuardrailResult(FALSE, EmptyMessage, "empty")
  ELSE IF \E bad \in BLOCKED_KEYWORDS : Has(m, bad)
    THEN GuardrailResult(FALSE, SafetyMessage, "safety")
  ELSE IF _contains_inappropriate_content(m)
    THEN GuardrailResult(FALSE, InappropriateMessage, "inappropriate")
  ELSE IF _is_clearly_out_of_domain(m)
    THEN GuardrailResult(FALSE, OutOfDomainMessage, "out_of_domain")
  ELSE GuardrailResult(TRUE, None, None)

\* ------------------------------------------------------------------- state
VARIABLES
  user_message,     \* the message of this request
  user_id,          \* resolved identity, or None
  env,              \* credentials configured
  pc,               \* position in handle_user_message_agentic
  router_info,      \* detect_intent(user_message)
  response,         \* last response of chat.send_message
  iteration,        \* loop variable of `for iteration in range(10)`
  tool_calls_log,   \* tool_calls_log
  tool_result,      \* tool_result (None until a tool has run)
  result,           \* the dict returned to the caller
  modelCalls,       \* number of chat.send_message calls made
  toolExecs,        \* number of execute_tool_call calls made
  ragQueries,       \* answer_with_rag calls: <<caller, question>>
  sent,             \* the content of the last chat.send_message call
  failure,          \* what raised inside the try block: "none", "model", "tool",
                    \* "fallback"
  gr,               \* gr of chat_endpoint: the result of apply_guardrails
  chat_response,    \* the ChatResponse of the last /chat request
  db_messages,      \* the messages table of the session, oldest first
  handled,          \* the messages handed to handle_user_message so far
  order,            \* the order a tool looks up
  today_str,        \* the `today` argument of a tool
  eligibility,      \* the dict check_return_eligibility_tool returns
  refund,           \* the dict check_refund_possibility_tool returns
  warranty,         \* the dict check_warranty_status_tool returns
  product_id,       \* the product_id argument of check_warranty_status_tool
  normalized_user_id  \* normalize_user_id(user_id) (None until it is computed)

vars ==
  <<user_message, user_id, env, pc, router_info, response, iteration,
    tool_calls_log, tool_result, result, modelCalls, toolExecs, ragQueries,
    sent, failure, gr, chat_response, db_messages, handled, order,
    today_str, eligibility, refund, warranty, product_id,
    normalized_user_id>>

\* what no step of handle_user_message changes
inputs ==
  <<user_message, user_id, env, gr, chat_response, db_messages, handled, order,
    today_str, eligibility, refund, warranty, product_id,
    normalized_user_id>>

\* what the order tools read and return
order_tools ==
  <<order, today_str, eligibility, refund, warranty, product_id, normalized_user_id>>

\* no /chat request has been served
NoChat ==
  /\ gr = NoneDict
  /\ chat_response = NoneDict
  /\ db_messages = <<>>
  /\ handled = <<>>

\* no order tool has been called
NoOrderTool ==
  /\ order = NoneDict
  /\ today_str = None
  /\ eligibility = NoneDict
  /\ refund = NoneDict
  /\ warranty = NoneDict
  /\ product_id = None
  /\ normalized_user_id = NoneDict

intent == router_info.intent

Init ==
  /\ user_message \in Messages
  /\ user_id \in UserIds
  /\ env \in Environments
  /\ pc = "start"
  /\ router_info = detect_intent(user_message)
  /\ response = NoResponse
  /\ iteration = 0
  /\ tool_calls_log = <<>>
  /\ tool_result = NoneDict
  /\ result = NoneDict
  /\ modelCalls = 0
  /\ toolExecs = 0
  /\ ragQueries = <<>>
  /\ sent = NothingSent
  /\ failure = "none"
  /\ NoChat
  /\ NoOrderTool

Return(r) ==
  /\ result' = r
  /\ pc' = "returned"

\* ------------------------------------------------------ built-in responses
ChitchatAnswer(m) ==
  IF Has(m, "how are you") \/ Has(m, "how r you")
    THEN "I'm doing great and ready to help you! How can I assist you today?"
  ELSE IF Has(m, "who are you")
    THEN "I'm an AI assistant for Antigravity Electronics."
  ELSE IF Has(m, "what can you do")
    THEN "I can help you: ..."
  ELSE IF Has(m, "thank")
    THEN "You're welcome! Feel free to ask if you need anything else."
  ELSE "Hi! I'm here to help with orders, products, returns, refunds, and more."

DateAnswer(today) ==
  CASE today = "2025-12-05" -> "Today's date is 2025-12-05."
    [] OTHER                -> "Today's date is <today>."

AuthPrompt == "To help with your order, return, refund, or warranty query, I need to identify you."

Short(i, answer, route) ==
  [intent |-> i, answer |-> answer, route |-> route, tool_calls |-> <<>>,
   iterations |-> 0, router_info |-> router_info]

\* lines 154-186
BuiltinChitchat ==
  /\ pc = "start"
  /\ intent = "chitchat"
  /\ Return(Short(intent, ChitchatAnswer(user_message), "builtin:chitchat"))
  /\ UNCHANGED <<inputs, router_info, response, iteration, tool_calls_log, tool_result,
                 modelCalls, toolExecs, ragQueries, sent, failure>>

\* Variant: the credential check is made before the date branch.
BuiltinDate_AfterKeyCheck ==
  /\ pc = "start"
  /\ router_info.intent = "date_query"
  /\ Return(IF env # {}
              THEN Short(router_info.intent, DateAnswer(Today), "builtin:date")
              ELSE Short(router_info.intent, "API key not configured.", "error:no_api_key"))
  /\ UNCHANGED <<inputs, router_info, response, iteration, tool_calls_log, tool_result,
                 modelCalls, toolExecs, ragQueries, sent, failure>>

\* lines 189-197
BuiltinDate ==
  /\ pc = "start"
  /\ intent # "chitchat"
  /\ intent = "date_query"
  /\ Return(Short(intent, DateAnswer(Today), "builtin:date"))
  /\ UNCHANGED <<inputs, router_info, response, iteration, tool_calls_log, tool_result,
                 modelCalls, toolExecs, ragQueries, sent, failure>>

\* Variant: the gate is skipped when the message carries an order id.
NeedsAuth_UnlessOrderId ==
  router_info.intent \in PRIVATE_INTENTS /\ user_id = None /\ router_info.order_id = None

NeedsAuth == intent \in PRIVATE_INTENTS /\ user_id = None

\* lines 200-214
AuthRequired ==
  /\ pc = "start"
  /\ intent \notin {"chitchat", "date_query"}
  /\ NeedsAuth
  /\ Return(Short(intent, AuthPrompt, "auth:user_id_required"))
  /\ UNCHANGED <<inputs, router_info, response, iteration, tool_calls_log, tool_result,
                 modelCalls, toolExecs, ragQueries, sent, failure>>

\* GEMINI_API_KEY, else GOOGLE_API_KEY
HasApiKey == env # {}

\* lines 222-238
NoApiKey ==
  /\ pc = "start"
  /\ intent \notin {"chitchat", "date_query"}
  /\ ~NeedsAuth
  /\ ~HasApiKey
  /\ Return(Short(intent, "API key not configured.", "error:no_api_key"))
  /\ UNCHANGED <<inputs, router_info, response, iteration, tool_calls_log, tool_result,
                 modelCalls, toolExecs, ragQueries, sent, failure>>

\* lines 241-318: the loop is entered; the first send_message is pending
StartChat ==
  /\ pc = "start"
  /\ intent \notin {"chitchat", "date_query"}
  /\ ~NeedsAuth
  /\ HasApiKey
  /\ pc' = "send"
  /\ tool_calls_log' = <<>>
  /\ tool_result' = NoneDict
  /\ UNCHANGED <<inputs, router_info, response, iteration, result,
                 modelCalls, toolExecs, ragQueries, sent, failure>>

\* ---------------------------------------------------------- the model turn
\* What the reasoning model may answer to the pending send_message.
ToolRequests == UNION { { FunctionCall(n, a) : a \in ArgsOf(n) } : n \in RequestedTools }

ModelResponses ==
  { r \in ToolRequests : Len(tool_calls_log) < MaxVaried \/ r = response }
  \cup { TextPart(t) : t \in FinalTexts }
  \cup { Malformed(k) : k \in MalformedKinds }

\* the argument of the pending send_message call
NextSend ==
  IF modelCalls = 0 THEN UserTurn(user_message)
                    ELSE FunctionResponse(response.name, tool_result)

\* chat.send_message returns (line 319, then lines 357-368 and `continue`)
ModelTurn ==
  /\ pc = "send"
  /\ \E r \in ModelResponses : response' = r
  /\ sent' = NextSend
  /\ modelCalls' = modelCalls + 1
  /\ iteration' = IF modelCalls = 0 THEN 0 ELSE iteration + 1
  /\ pc' = "loop"
  /\ UNCHANGED <<inputs, router_info, tool_calls_log, tool_result, result,
                 toolExecs, ragQueries, failure>>

\* model.start_chat / chat.send_message raises: control goes to line 414
ModelRaises ==
  /\ pc = "send"
  /\ sent' = NextSend
  /\ modelCalls' = modelCalls + 1
  /\ failure' = "model"
  /\ pc' = "except"
  /\ UNCHANGED <<inputs, router_info, response, iteration, tool_calls_log, tool_result,
                 result, toolExecs, ragQueries>>

\* ---------------------------------------------------------------- the loop
InLoop == pc = "loop" /\ iteration < MaxIterations

\* range(10) is exhausted: control goes to line 389
LoopExhausted ==
  /\ pc = "loop"
  /\ iteration >= MaxIterations
  /\ pc' = "after"
  /\ UNCHANGED <<inputs, router_info, response, iteration, tool_calls_log, tool_result,
                 result, modelCalls, toolExecs, ragQueries, sent, failure>>

\* lines 323-330 and 385-387: break
ProtocolBreak ==
  /\ InLoop
  /\ response.kind \in MalformedKinds
  /\ pc' = "after"
  /\ UNCHANGED <<inputs, router_info, response, iteration, tool_calls_log, tool_result,
                 result, modelCalls, toolExecs, ragQueries, sent, failure>>

\* the record appended at lines 344-347; its args dict is the one that
\* execute_tool_call then updates in place
LoggedCall(name, args, today) == [tool |-> name, args |-> InjectToday(name, args, today)]

\* lines 335-352: the tool call is logged and executed; the function
\* response is about to be sent (line 357)
ToolRequested ==
  /\ InLoop
  /\ response.kind = "function_call"
  /\ \E b \in ToolBehaviours(response.name, env) :
       LET out == execute_tool_call(response.name, response.args, Today, b) IN
         /\ tool_calls_log' =
              Append(tool_calls_log, LoggedCall(response.name, response.args, Today))
         /\ toolExecs' = toolExecs + 1
         /\ ragQueries' = IF response.name = "search_policy_docs"
                            THEN Append(ragQueries, <<"tool", response.args.query>>)
                            ELSE ragQueries
         /\ IF out.raised
              THEN pc' = "except" /\ failure' = "tool" /\ UNCHANGED tool_result
              ELSE pc' = "send" /\ tool_result' = out.result /\ UNCHANGED failure
  /\ UNCHANGED <<inputs, router_info, response, iteration, result, modelCalls, sent>>

\* lines 373-384
FinalText ==
  /\ InLoop
  /\ response.kind = "text"
  /\ Return([intent |-> intent, answer |-> response.text,
             route |-> "gemini:agentic_function_calling",
             tool_calls |-> tool_calls_log, iterations |-> iteration + 1,
             router_info |-> router_info])
  /\ UNCHANGED <<inputs, router_info, response, iteration, tool_calls_log, tool_result,
                 modelCalls, toolExecs, ragQueries, sent, failure>>

\* ------------------------------------------------------- after the loop
GenericPartialAnswer ==
  "I gathered some information but encountered an issue generating the final response."

HasMessage(d) == IsDict(d) /\ "message" \in DOMAIN d

\* Variant: the fallback answers the question of the latest retrieval query
\* of the request instead of the user's message.
Fallback_LatestQuery ==
  /\ ragQueries' = Append(ragQueries, <<"fallback", user_message>>)
  /\ \E o \in RagOutcomes(env) :
       IF o = "raise"
         THEN pc' = "raised" /\ UNCHANGED result
         ELSE LET question == IF ragQueries = <<>> THEN user_message
                              ELSE ragQueries[Len(ragQueries)][2]
              IN  Return([intent |-> intent, answer |-> RagAnswer(question).answer,
                          route |-> "fallback:rag", tool_calls |-> <<>>, iterations |-> 0,
                          router_info |-> router_info,
                          rag_result |-> RagAnswer(question)])

\* handle_user_message_fallback, lines 437-460: answer_with_rag either
\* returns, or raises and the exception leaves handle_user_message
Fallback ==
  /\ ragQueries' = Append(ragQueries, <<"fallback", user_message>>)
  /\ \E o \in RagOutcomes(env) :
       IF o = "raise"
         THEN pc' = "raised" /\ UNCHANGED result
         ELSE Return([intent |-> intent, answer |-> RagAnswer(user_message).answer,
                      route |-> "fallback:rag", tool_calls |-> <<>>, iterations |-> 0,
                      router_info |-> router_info,
                      rag_result |-> RagAnswer(user_message)])

\* Variant: the last tool's message is never used.
MaxIterationsWithTools_GenericOnly ==
  /\ pc = "after"
  /\ tool_calls_log # <<>>
  /\ Return([intent |-> router_info.intent, answer |-> GenericPartialAnswer,
             route |-> "gemini:max_iterations_with_tools",
             tool_calls |-> tool_calls_log, iterations |-> ReportedCapIterations,
             router_info |-> router_info])
  /\ UNCHANGED <<inputs, router_info, response, iteration, tool_calls_log, tool_result,
                 modelCalls, toolExecs, ragQueries, sent, failure>>

\* Variant: without a message in the last tool result the fallback handler
\* is called.
MaxIterationsWithTools_FallsBack ==
  /\ pc = "after"
  /\ tool_calls_log # <<>>
  /\ IF HasMessage(tool_result)
       THEN /\ Return([intent |-> router_info.intent, answer |-> tool_result.message,
                       route |-> "gemini:max_iterations_with_tools",
                       tool_calls |-> tool_calls_log,
                       iterations |-> ReportedCapIterations,
                       router_info |-> router_info])
            /\ UNCHANGED ragQueries
       ELSE Fallback
  /\ UNCHANGED <<inputs, router_info, response, iteration, tool_calls_log, tool_result,
                 modelCalls, toolExecs, sent, failure>>

\* lines 390-407
MaxIterationsWithTools ==
  /\ pc = "after"
  /\ tool_calls_log # <<>>
  /\ Return([intent |-> intent,
             answer |-> IF HasMessage(tool_result) THEN tool_result.message
                                                   ELSE GenericPartialAnswer,
             route |-> "gemini:max_iterations_with_tools",
             tool_calls |-> tool_calls_log, iterations |-> ReportedCapIterations,
             router_info |-> router_info])
  /\ UNCHANGED <<inputs, router_info, response, iteration, tool_calls_log, tool_result,
                 modelCalls, toolExecs, ragQueries, sent, failure>>

\* lines 408-412: the call of handle_user_message_fallback lies inside the
\* try block, so an exception of answer_with_rag is caught at line 414
NoToolsFallback ==
  /\ pc = "after"
  /\ tool_calls_log = <<>>
  /\ \/ Fallback /\ pc' = "returned" /\ UNCHANGED failure
     \/ /\ "raise" \in RagOutcomes(env)
        /\ ragQueries' = Append(ragQueries, <<"fallback", user_message>>)
        /\ pc' = "except"
        /\ failure' = "fallback"
        /\ UNCHANGED result
  /\ UNCHANGED <<inputs, router_info, response, iteration, tool_calls_log, tool_result,
                 modelCalls, toolExecs, sent>>

\* lines 414-429
ErrorWithPartialResults ==
  /\ pc = "except"
  /\ tool_calls_log # <<>> /\ IsDict(tool_result) /\ "message" \in DOMAIN tool_result
  /\ Return([intent |-> intent, answer |-> tool_result.message,
             route |-> "gemini:error_with_partial_results",
             tool_calls |-> tool_calls_log, iterations |-> Len(tool_calls_log),
             router_info |-> router_info])
  /\ UNCHANGED <<inputs, router_info, response, iteration, tool_calls_log, tool_result,
                 modelCalls, toolExecs, ragQueries, sent, failure>>

\* lines 431-434
ExceptFallback ==
  /\ pc = "except"
  /\ ~(tool_calls_log # <<>> /\ IsDict(tool_result) /\ "message" \in DOMAIN tool_result)
  /\ Fallback
  /\ UNCHANGED <<inputs, router_info, response, iteration, tool_calls_log, tool_result,
                 modelCalls, toolExecs, sent, failure>>

\* ----------------------------------------------------------- specification
Next ==
  \/ BuiltinChitchat
  \/ BuiltinDate
  \/ AuthRequired
  \/ NoApiKey
  \/ StartChat
  \/ ModelTurn
  \/ ModelRaises
  \/ LoopExhausted
  \/ ProtocolBreak
  \/ ToolRequested
  \/ FinalText
  \/ MaxIterationsWithTools
  \/ NoToolsFallback
  \/ ErrorWithPartialResults
  \/ ExceptFallback

Spec == Init /\ [][Next]_vars

Finished == pc \in {"returned", "raised"}

TypeOK ==
  /\ pc \in {"start", "send", "loop", "after", "except", "returned", "raised"}
  /\ iteration \in 0..MaxIterations
  /\ Len(tool_calls_log) <= MaxIterations
  /\ toolExecs = Len(tool_calls_log)

\* ------------------------------------------------- guardrails on their own
\* apply_guardrails applied to every message of at most MaxPhrases phrases.
MaxPhrases == 2

GuardPhrases ==
  {"  ", "BOMB", "begun", "flirt with", "sex", "order", "Refund", " hi", "hello",
   "shipping", "asdkjasd alkjd", "what day is it"}

PhraseSeqs(phrases) == UNION { [1..n -> phrases] : n \in 0..MaxPhrases }

\* handle_user_message has not been called
OrchestratorIdle ==
  /\ pc = "start"
  /\ router_info = NoneDict
  /\ response = NoResponse
  /\ iteration = 0
  /\ tool_calls_log = <<>>
  /\ tool_result = NoneDict
  /\ result = NoneDict
  /\ modelCalls = 0
  /\ toolExecs = 0
  /\ ragQueries = <<>>
  /\ sent = NothingSent
  /\ failure = "none"

orchestrator ==
  <<user_id, env, pc, router_info, response, iteration, tool_calls_log,
    tool_result, result, modelCalls, toolExecs, ragQueries, sent, failure>>

InitGuard ==
  /\ user_message \in PhraseSeqs(GuardPhrases)
  /\ user_id = None
  /\ env = {}
  /\ OrchestratorIdle
  /\ NoChat
  /\ NoOrderTool

ApplyGuardrails ==
  /\ gr = NoneDict
  /\ gr' = apply_guardrails(user_message)
  /\ UNCHANGED <<user_message, orchestrator, chat_response, db_messages, handled,
                 order_tools>>

NextGuard == ApplyGuardrails

SpecGuard == InitGuard /\ [][NextGuard]_vars

\* ----------------------------------------------------- the router on its own
\* detect_intent applied to every message of at most MaxPhrases phrases.
RouterPhrases ==
  {"not working", "hello", " hi", "thanks", "what day is it", "where is my order",
   "status", "order", "ORD1002", "Ord1001", "return policy", "Refund", "return",
   "warranty", "laptop", "suggest", "catalog", "asdkjasd alkjd", "  "}

InitRouter ==
  /\ user_message \in PhraseSeqs(RouterPhrases)
  /\ user_id = None
  /\ env = {}
  /\ OrchestratorIdle
  /\ NoChat
  /\ NoOrderTool

DetectIntent ==
  /\ router_info = NoneDict
  /\ router_info' = detect_intent(user_message)
  /\ UNCHANGED <<inputs, pc, response, iteration, tool_calls_log, tool_result, result,
                 modelCalls, toolExecs, ragQueries, sent, failure>>

NextRouter == DetectIntent

SpecRouter == InitRouter /\ [][NextRouter]_vars

\* ------------------------------------------------- the returns tool on its own
\* check_return_eligibility_tool of backend/tools/returns_tool.py applied to
\* an order of data/structured/orders.json and a `today` argument.

\* return_window_days
ReturnWindowDays == 7

\* the dates of the orders, "%Y-%m-%d"
Dates ==
  {"2025-11-20", "2025-11-27", "2025-11-28", "2025-12-01", "2025-12-02", "2025-12-05",
   "2025-12-10"}

\* the purchase dates of the warranty checks
WarrantyDates ==
  {"2024-12-04", "2024-12-05", "2025-06-07", "2025-06-08", "2025-09-05", "2025-09-06",
   "2025-12-05", "2025-12-10"}

\* the strings datetime.strptime(d, "%Y-%m-%d") accepts
ValidDates == Dates \cup WarrantyDates

\* datetime.strptime(d, "%Y-%m-%d"), in days since 2024-12-31
DayOf(d) ==
  CASE d = "2024-12-04" -> -27
    [] d = "2024-12-05" -> -26
    [] d = "2025-06-07" -> 158
    [] d = "2025-06-08" -> 159
    [] d = "2025-09-05" -> 248
    [] d = "2025-09-06" -> 249
    [] d = "2025-11-20" -> 324
    [] d = "2025-11-27" -> 331
    [] d = "2025-11-28" -> 332
    [] d = "2025-12-01" -> 335
    [] d = "2025-12-02" -> 336
    [] d = "2025-12-05" -> 339
    [] d = "2025-12-10" -> 344

\* parse_date: None for a missing or empty string, ValueError for a string
\* that is not a date
parse_date(date_str) ==
  IF date_str = None \/ date_str = "" THEN [raised |-> FALSE, value |-> None]
  ELSE IF date_str \in ValidDates THEN [raised |-> FALSE, value |-> date_str]
  ELSE [raised |-> TRUE, value |-> None]

\* an order as find_order returns it: a delivered order carries the date of
\* its delivery, a shipped order its estimated delivery date
\* (get_order_status_tool), an order in processing none
Orders ==
  [order_id : {"ORD1001"}, status : {"delivered"}, delivery_date : Dates]
  \cup [order_id : {"ORD1001"}, status : {"shipped"}, delivery_date : Dates \cup {None}]
  \cup [order_id : {"ORD1001"}, status : {"processing"}, delivery_date : {None, ""}]

TodayArgs == Dates \cup {None, "", "05/12/2025"}

ValueError == [raised |-> "ValueError"]

ReturnEnvelope(found, eligible, o, days_since, reason) ==
  [found |-> found, eligible |-> eligible, order_id |-> "ORD1001",
   status |-> IF found THEN o.status ELSE None,
   delivery_date |-> IF found THEN o.delivery_date ELSE None,
   days_since_delivery |-> days_since, reason |-> reason]

\* Variant: the window ends before its last day (days_since < 7).
check_return_eligibility_tool_StrictWindow(o, today) ==
  IF o = NoneDict THEN ReturnEnvelope(FALSE, FALSE, o, None, "No order found")
  ELSE IF parse_date(o.delivery_date).raised \/ parse_date(today).raised THEN ValueError
  ELSE IF parse_date(o.delivery_date).value = None
    THEN ReturnEnvelope(TRUE, FALSE, o, None, "Order has not been delivered yet")
  ELSE IF parse_date(today).value = None
    THEN ReturnEnvelope(TRUE, FALSE, o, None, "Invalid 'today' date provided")
  ELSE LET days_since == DayOf(parse_date(today).value)
                           - DayOf(parse_date(o.delivery_date).value)
       IN  IF days_since < ReturnWindowDays
             THEN ReturnEnvelope(TRUE, TRUE, o, days_since, "within the return window")
             ELSE ReturnEnvelope(TRUE, FALSE, o, days_since, "outside the return window")

check_return_eligibility_tool(o, today) ==
  IF o = NoneDict THEN ReturnEnvelope(FALSE, FALSE, o, None, "No order found")
  ELSE IF parse_date(o.delivery_date).raised \/ parse_date(today).raised THEN ValueError
  ELSE IF parse_date(o.delivery_date).value = None
    THEN ReturnEnvelope(TRUE, FALSE, o, None, "Order has not been delivered yet")
  ELSE IF parse_date(today).value = None
    THEN ReturnEnvelope(TRUE, FALSE, o, None, "Invalid 'today' date provided")
  ELSE LET days_since == DayOf(parse_date(today).value)
                           - DayOf(parse_date(o.delivery_date).value)
       IN  IF days_since <= ReturnWindowDays
             THEN ReturnEnvelope(TRUE, TRUE, o, days_since, "within the return window")
             ELSE ReturnEnvelope(TRUE, FALSE, o, days_since, "outside the return window")

\* -------------------------------------------------------------- refund tool
RefundEnvelope(found, refundable, e, reason, timeline) ==
  [found |-> found, refundable |-> refundable, order_id |-> "ORD1001",
   status |-> IF found THEN e.status ELSE None,
   delivery_date |-> IF found THEN e.delivery_date ELSE None,
   reason |-> reason, expected_refund_timeline |-> timeline]

\* Variant: the timeline is given for every order that was found.
check_refund_possibility_tool_TimelineAlways(o, today) ==
  LET e == check_return_eligibility_tool(o, today) IN
    IF e = ValueError THEN ValueError
    ELSE IF ~e.found THEN RefundEnvelope(FALSE, FALSE, e, e.reason, None)
    ELSE RefundEnvelope(TRUE, e.eligible, e, "refund", "refund completed by around today + 7")

\* check_refund_possibility_tool: the exception of the eligibility tool is
\* not caught
check_refund_possibility_tool(o, today) ==
  LET e == check_return_eligibility_tool(o, today) IN
    IF e = ValueError THEN ValueError
    ELSE IF ~e.found THEN RefundEnvelope(FALSE, FALSE, e, e.reason, None)
    ELSE IF ~e.eligible
      THEN RefundEnvelope(TRUE, FALSE, e, "a refund cannot be processed", None)
    ELSE IF parse_date(today).value = None
      THEN RefundEnvelope(TRUE, TRUE, e, "a refund can be issued", None)
    ELSE RefundEnvelope(TRUE, TRUE, e, "a refund can be issued",
                        "refund completed by around today + 7")

InitReturns ==
  /\ user_message = <<>>
  /\ user_id = None
  /\ env = {}
  /\ OrchestratorIdle
  /\ NoChat
  /\ order \in Orders \cup {NoneDict}
  /\ today_str \in TodayArgs
  /\ eligibility = NoneDict
  /\ refund = NoneDict
  /\ warranty = NoneDict
  /\ product_id = None
  /\ normalized_user_id = NoneDict

CheckReturnEligibility ==
  /\ eligibility = NoneDict
  /\ eligibility' = check_return_eligibility_tool(order, today_str)
  /\ UNCHANGED <<user_message, orchestrator, gr, chat_response, db_messages, handled,
                 order, today_str, refund, warranty, product_id, normalized_user_id>>

\* check_refund_possibility_tool.invoke({"order_id": ..., "today": today_str})
CheckRefundPossibility ==
  /\ refund = NoneDict
  /\ refund' = check_refund_possibility_tool(order, today_str)
  /\ UNCHANGED <<user_message, orchestrator, gr, chat_response, db_messages, handled,
                 order, today_str, eligibility, warranty, product_id,
                 normalized_user_id>>

NextReturns ==
  \/ CheckReturnEligibility
  \/ CheckRefundPossibility

SpecReturns == InitReturns /\ [][NextReturns]_vars

\* ------------------------------------------------ the warranty tool on its own
\* check_warranty_status_tool of backend/tools/warranty_tool.py applied to an
\* order, a product id and a `today` argument.
ProductIds == {"LAP123", "HPH001", "MOU001", "OLD999"}

\* product_index.get(product_id): the category of products.json, None for a
\* product that is not in the index
CategoryOf(pid) ==
  CASE pid = "LAP123" -> "Laptop"
    [] pid = "HPH001" -> "headphones"
    [] pid = "MOU001" -> "mouse"
    [] OTHER          -> None

\* str.lower() of a category
LowerCategory(c) == IF c = "Laptop" THEN "laptop" ELSE c

\* Variant: headphones get the default duration.
get_warranty_days_for_category_NoHeadphones(category) ==
  LET cat == LowerCategory(category) IN
    IF cat = "laptop" THEN 365
    ELSE 90

get_warranty_days_for_category(category) ==
  LET cat == LowerCategory(category) IN
    IF cat = "laptop" THEN 365
    ELSE IF cat = "headphones" THEN 180
    ELSE 90

WarrantyOrders ==
  [order_id : {"ORD1001"},
   delivery_date : WarrantyDates \cup {None, ""},
   order_date : {None, "2024-12-04", "2025-09-05"},
   items : {<<"LAP123">>, <<"HPH001", "MOU001">>, <<"OLD999">>}]

WarrantyTodays == {"2025-12-05", "2025-12-10", None, "05/12/2025"}

WarrantyEnvelope(fo, fp, in_warranty, pid, category, purchase, end_day, days, reason) ==
  [found_order |-> fo, found_product |-> fp,
   in_warranty |-> in_warranty, order_id |-> "ORD1001", product_id |-> pid,
   category |-> category, purchase_date |-> purchase, warranty_end_date |-> end_day,
   days_since_purchase |-> days, reason |-> reason]

check_warranty_status_tool(o, pid, today) ==
  IF o = NoneDict
    THEN WarrantyEnvelope(FALSE, FALSE, None, pid, None, None, None, None, "No order found")
  ELSE IF ~(\E k \in DOMAIN o.items : o.items[k] = pid)
    THEN WarrantyEnvelope(TRUE, FALSE, None, pid, None, None, None, None,
                          "Product is not part of order")
  ELSE
    LET category == IF CategoryOf(pid) # None
                      THEN LowerCategory(CategoryOf(pid)) ELSE None
        purchase_date_str == IF o.delivery_date \notin {None, ""}
                               THEN o.delivery_date ELSE o.order_date
    IN  IF parse_date(purchase_date_str).raised \/ parse_date(today).raised
          THEN ValueError
        ELSE IF parse_date(purchase_date_str).value = None \/ parse_date(today).value = None
          THEN WarrantyEnvelope(TRUE, TRUE, None, pid, category, purchase_date_str, None,
                                None, "Invalid or missing purchase date or 'today' date.")
        ELSE
          LET days_since_purchase == DayOf(today) - DayOf(purchase_date_str)
              warranty_days == get_warranty_days_for_category(
                                 IF category # None THEN category ELSE "")
              warranty_end_date == DayOf(purchase_date_str) + warranty_days
              in_warranty == DayOf(today) <= warranty_end_date
          IN  WarrantyEnvelope(TRUE, TRUE, in_warranty, pid, category, purchase_date_str,
                               warranty_end_date, days_since_purchase,
                               IF in_warranty THEN "still under warranty"
                               ELSE "no longer under warranty")

InitWarranty ==
  /\ user_message = <<>>
  /\ user_id = None
  /\ env = {}
  /\ OrchestratorIdle
  /\ NoChat
  /\ order \in WarrantyOrders \cup {NoneDict}
  /\ product_id \in ProductIds
  /\ today_str \in WarrantyTodays
  /\ eligibility = NoneDict
  /\ refund = NoneDict
  /\ warranty = NoneDict
  /\ normalized_user_id = NoneDict

CheckWarrantyStatus ==
  /\ warranty = NoneDict
  /\ warranty' = check_warranty_status_tool(order, product_id, today_str)
  /\ UNCHANGED <<user_message, orchestrator, gr, chat_response, db_messages, handled,
                 order, today_str, eligibility, refund, product_id,
                 normalized_user_id>>

NextWarranty == CheckWarrantyStatus

SpecWarranty == InitWarranty /\ [][NextWarranty]_vars

\* ------------------------------------------- the user lookup on its own
\* A user identifier is a sequence of characters.
MaxIdLen == 4

Chars == {"0", "1", "u", "U", "a", " "}

Digits == {"0", "1"}

UserIdStrings == UNION { [1..n -> Chars] : n \in 0..MaxIdLen }

RECURSIVE strip(_)
\* str.strip
strip(s) ==
  IF s = <<>> THEN s
  ELSE IF s[1] = " " THEN strip(Tail(s))
  ELSE IF s[Len(s)] = " " THEN strip(SubSeq(s, 1, Len(s) - 1))
  ELSE s

\* str.upper
upper(s) ==
  [ i \in DOMAIN s |-> CASE s[i] = "u" -> "U" [] s[i] = "a" -> "A" [] OTHER -> s[i] ]

\* str.isdigit
isdigit(s) == s # <<>> /\ \A i \in DOMAIN s : s[i] \in Digits

RECURSIVE zfill(_, _)
\* str.zfill: zeros on the left up to the width, nothing removed
zfill(s, width) == IF Len(s) >= width THEN s ELSE zfill(<<"0">> \o s, width)

\* normalize_user_id, lines 15-30
normalize_user_id(uid) ==
  LET stripped == upper(strip(uid))
      prefixed == IF isdigit(stripped) THEN <<"U">> \o zfill(stripped, 3) ELSE stripped
  IN  IF prefixed = <<>> \/ prefixed[1] # "U" THEN <<"U">> \o prefixed ELSE prefixed

InitUser ==
  /\ user_message = <<>>
  /\ user_id \in UserIdStrings
  /\ env = {}
  /\ OrchestratorIdle
  /\ NoChat
  /\ NoOrderTool

\* find_orders_by_user_id_func, line 39
NormalizeUserId ==
  /\ normalized_user_id = NoneDict
  /\ normalized_user_id' = [value |-> normalize_user_id(user_id)]
  /\ UNCHANGED <<user_message, orchestrator, gr, chat_response, db_messages, handled,
                 order, today_str, eligibility, refund, warranty, product_id>>

NextUser == NormalizeUserId

SpecUser == InitUser /\ [][NextUser]_vars

\* ------------------------------------------------------- the /chat endpoint
\* chat_endpoint of backend/app.py, serving up to MaxRequests requests of
\* one session.  handle_user_message is taken by its outcomes.
MaxRequests == 2

\* limit of db.get_conversation_history in chat_endpoint
HistoryLimit == 20

ChatMessages ==
  { <<"hello">>, <<"Hello">>, <<"refund">>, <<"return policy">>,
    <<"order", "BOMB">>, <<"asdkjasd alkjd">>, <<>> }

\* db.add_message
add_message(msgs, role, content, uid, i, route) ==
  Append(msgs, [role |-> role, content |-> content, user_id |-> uid,
                intent |-> i, route |-> route])

\* db.get_conversation_history: the last `limit` messages, oldest first
get_conversation_history(msgs, limit) ==
  IF Len(msgs) <= limit THEN msgs
  ELSE SubSeq(msgs, Len(msgs) - limit + 1, Len(msgs))

\* f"guardrail:{gr.reason}"
GuardrailRoute(reason) ==
  CASE reason = "empty"         -> "guardrail:empty"
    [] reason = "safety"        -> "guardrail:safety"
    [] reason = "inappropriate" -> "guardrail:inappropriate"
    [] reason = "out_of_domain" -> "guardrail:out_of_domain"
    [] OTHER                    -> "guardrail:None"

ChatResponse(answer, i, route, tool_calls, iterations, ri, triggered, reason) ==
  [answer |-> answer, intent |-> i, route |-> route, tool_calls |-> tool_calls,
   iterations |-> iterations, router_info |-> ri, from_cache |-> FALSE,
   guardrail_triggered |-> triggered, guardrail_reason |-> reason]

\* an exception leaving chat_endpoint
ServerError == [status |-> 500]

\* what handle_user_message(m, user_id = uid) can return when the credentials
\* e are configured
handle_user_message_results(m, uid, e) ==
  LET ri == detect_intent(m)
      short(answer, route) ==
        [intent |-> ri.intent, answer |-> answer, route |-> route,
         tool_calls |-> <<>>, iterations |-> 0, router_info |-> ri]
  IN  IF ri.intent = "chitchat" THEN {short(ChitchatAnswer(m), "builtin:chitchat")}
      ELSE IF ri.intent = "date_query" THEN {short(DateAnswer(Today), "builtin:date")}
      ELSE IF ri.intent \in PRIVATE_INTENTS /\ uid = None
        THEN {short(AuthPrompt, "auth:user_id_required")}
      ELSE IF e = {} THEN {short("API key not configured.", "error:no_api_key")}
      ELSE { short(RagAnswer(m).answer, "fallback:rag") : o \in RagOutcomes(e) \ {"raise"} }
           \cup { [intent |-> ri.intent, answer |-> t,
                   route |-> "gemini:agentic_function_calling",
                   tool_calls |-> <<>>, iterations |-> 1, router_info |-> ri]
                  : t \in FinalTexts }

\* handle_user_message(m, user_id = uid) can raise: the fallback's
\* answer_with_rag raises
handle_user_message_raises(m, uid, e) ==
  LET ri == detect_intent(m) IN
    /\ ri.intent \notin {"chitchat", "date_query"}
    /\ ~(ri.intent \in PRIVATE_INTENTS /\ uid = None)
    /\ e # {}
    /\ "raise" \in RagOutcomes(e)

\* the user messages of the session: one per request served
Requests == SelectSeq(db_messages, LAMBDA x : x.role = "user")

InitChat ==
  /\ user_message = <<>>
  /\ user_id \in UserIds
  /\ env \in {{}, {"GEMINI_API_KEY"}}
  /\ OrchestratorIdle
  /\ NoChat
  /\ NoOrderTool

NewRequest(m) ==
  /\ Len(Requests) < MaxRequests
  /\ user_message' = m
  /\ gr' = apply_guardrails(m)
  /\ UNCHANGED <<orchestrator, order_tools>>

\* Variant: a blocked message is answered with the guardrail text, but the
\* orchestrator is run on it as well.
ChatBlocked_ThenHandled ==
  \E m \in ChatMessages :
    /\ NewRequest(m)
    /\ ~gr'.allowed
    /\ db_messages' = add_message(db_messages, "user", m, user_id, "guardrail_blocked",
                                  GuardrailRoute(gr'.reason))
    /\ handled' = Append(handled, [user_message |-> m, user_id |-> user_id,
                                   conversation_history |-> <<>>])
    /\ chat_response' = ChatResponse(gr'.message, "guardrail", GuardrailRoute(gr'.reason),
                                     <<>>, 0, <<>>, TRUE, gr'.reason)

\* lines 140-182: the message is blocked
ChatBlocked ==
  \E m \in ChatMessages :
    /\ NewRequest(m)
    /\ ~gr'.allowed
    /\ LET answer == IF gr'.message # None THEN gr'.message
                     ELSE "I cannot respond to this request."
           route  == GuardrailRoute(gr'.reason)
       IN  /\ db_messages' =
                add_message(add_message(db_messages, "user", m, user_id,
                                        "guardrail_blocked", route),
                            "assistant", answer, user_id, "guardrail_response", route)
           /\ chat_response' = ChatResponse(answer, "guardrail", route, <<>>, 0, <<>>,
                                            TRUE, gr'.reason)
    /\ UNCHANGED handled

\* lines 140-152 and 184-225: the message is allowed and answered
ChatAnswered ==
  \E m \in ChatMessages :
    /\ NewRequest(m)
    /\ gr'.allowed
    /\ handled' = Append(handled,
                    [user_message |-> m, user_id |-> user_id,
                     conversation_history |->
                       get_conversation_history(db_messages, HistoryLimit)])
    /\ \E r \in handle_user_message_results(m, user_id, env) :
         /\ db_messages' =
              add_message(add_message(db_messages, "user", m, user_id, None, None),
                          "assistant", r.answer, user_id, r.intent, r.route)
         /\ chat_response' = ChatResponse(r.answer, r.intent, r.route, r.tool_calls,
                                          r.iterations, r.router_info, FALSE, None)

\* lines 140-152 and 184-201: handle_user_message raises
ChatFailed ==
  \E m \in ChatMessages :
    /\ NewRequest(m)
    /\ gr'.allowed
    /\ handle_user_message_raises(m, user_id, env)
    /\ handled' = Append(handled,
                    [user_message |-> m, user_id |-> user_id,
                     conversation_history |->
                       get_conversation_history(db_messages, HistoryLimit)])
    /\ db_messages' = add_message(db_messages, "user", m, user_id, None, None)
    /\ chat_response' = ServerError

NextChat ==
  \/ ChatBlocked
  \/ ChatAnswered
  \/ ChatFailed

SpecChat == InitChat /\ [][NextChat]_vars

\* format_history_for_gemini: user rows become user turns, assistant rows
\* become model turns, in order
format_history_for_gemini(conversation_history) ==
  [ i \in DOMAIN conversation_history |->
      [role  |-> IF conversation_history[i].role = "user" THEN "user" ELSE "model",
       parts |-> <<[text |-> conversation_history[i].content]>>] ]

\* handle_user_message(m, user_id = uid) gets as far as model.start_chat:
\* no built-in answer, no login prompt, an API key configured
ReachesStartChat(m, uid, e) ==
  LET ri == detect_intent(m) IN
    /\ ri.intent \notin {"chitchat", "date_query"}
    /\ ~(ri.intent \in PRIVATE_INTENTS /\ uid = None)
    /\ e # {}

\* the history model.start_chat received in the i-th orchestrator run
StartChatHistory(i) == format_history_for_gemini(handled[i].conversation_history)

\* ------------------------------------------------------------ shorthands
Returned == pc = "returned"

ResultKeys == {"intent", "answer", "route", "tool_calls", "iterations", "router_info"}

\* every response of the reasoning model so far was a tool-call request
\* and nothing raised
OnlyToolRequests == response.kind = "function_call" /\ failure = "none"

\* the loop was left by break or by exhausting range(10), not by return
\* and not by an exception
LoopEndedWithoutText ==
  /\ pc \in {"after", "returned", "raised"}
  /\ failure = "none"
  /\ modelCalls > 0
  /\ response.kind \in MalformedKinds \/ iteration >= MaxIterations

FallbackInvoked ==
  /\ ragQueries # <<>>
  /\ ragQueries[Len(ragQueries)] = <<"fallback", user_message>>

UnknownTool(name) == name \notin ToolMapNames \cup {"search_policy_docs"}

\* ------------------------------------------------------------------ claims

\* C1: for a reasoning model that requests a tool call on every turn, one
\* run makes at most MaxIterations (10) send_message calls, ends in the
\* max-iterations outcome and returns a non-empty answer.
C1_IterationCap ==
  OnlyToolRequests =>
    /\ modelCalls <= MaxIterations
    /\ Returned => /\ result.route = "gemini:max_iterations_with_tools"
                   /\ result.answer # ""

\* C2: whatever the model, the tools and the retrieval answerer do,
\* handle_user_message ends by returning a structured result with intent,
\* answer, route, tool_calls, iterations and router_info; no exception
\* reaches the caller.
C2_NoExceptionEscapes ==
  /\ pc # "raised"
  /\ Returned => ResultKeys \subseteq DOMAIN result

\* C3: a request for a tool that is not in the registry is logged, yields
\* the structured {error: ...} result without raising, and that result is
\* what the next send_message carries; that model turn consumes one
\* iteration.
C3_UnknownToolIsErrorTurn ==
  [][ /\ (InLoop /\ response.kind = "function_call" /\ UnknownTool(response.name))
         => /\ pc' = "send"
            /\ failure' = "none"
            /\ tool_result' = [error |-> UnknownToolError(response.name)]
            /\ tool_calls_log' =
                 Append(tool_calls_log, [tool |-> response.name, args |-> response.args])
      /\ (pc = "send" /\ modelCalls > 0 /\ UnknownTool(response.name) /\ pc' # pc)
         => /\ sent' = FunctionResponse(response.name,
                                        [error |-> UnknownToolError(response.name)])
            /\ modelCalls' = modelCalls + 1
            /\ pc' = "loop" => iteration' = iteration + 1
    ]_vars

C3_Witness ==
  /\ pc = "loop"
  /\ sent = FunctionResponse("lookup_weather", [error |-> "Unknown tool: lookup_weather"])
  /\ tool_calls_log # <<>>
  /\ tool_calls_log[Len(tool_calls_log)].tool = "lookup_weather"
  /\ iteration = Len(tool_calls_log)

\* C4: when the loop ends without final text after at least one tool call
\* and the last tool result has a message field, the answer is that
\* message, the route is gemini:max_iterations_with_tools and tool_calls is
\* the full log.
C4_LastToolMessageReturned ==
  (Returned /\ LoopEndedWithoutText /\ tool_calls_log # <<>> /\ HasMessage(tool_result))
    => /\ result.answer = tool_result.message
       /\ result.route = "gemini:max_iterations_with_tools"
       /\ result.tool_calls = tool_calls_log
       /\ Len(result.tool_calls) = toolExecs

C4_Witness ==
  /\ Returned /\ LoopEndedWithoutText /\ HasMessage(tool_result)
  /\ Len(tool_calls_log) = MaxIterations
  /\ result.answer = tool_result.message

\* C5 (as stated): when the loop ends without final text and it is not the
\* case that a tool was called whose last result has a message, the result
\* comes from the Fallback Chain: retrieval invoked with the original
\* message, route fallback:rag.
C5_Original ==
  (Returned /\ LoopEndedWithoutText /\ ~(tool_calls_log # <<>> /\ HasMessage(tool_result)))
    => /\ FallbackInvoked
       /\ result.route = "fallback:rag"

\* C5 (amended): when the loop ends without final text and no tool was
\* called, the retrieval answerer is invoked with the original message and
\* a returned result has route fallback:rag; when a tool was called but the
\* last tool result has no message field, the Fallback Chain is not entered:
\* the answer is the generic text, the route gemini:max_iterations_with_tools
\* and tool_calls the full log.
C5_FallbackOnlyWithoutTools ==
  /\ (Finished /\ LoopEndedWithoutText /\ tool_calls_log = <<>>)
       => /\ FallbackInvoked
          /\ Returned => /\ result.route = "fallback:rag"
                         /\ result.answer = RagAnswer(user_message).answer
  /\ (Finished /\ LoopEndedWithoutText /\ tool_calls_log # <<>> /\ ~HasMessage(tool_result))
       => /\ Returned
          /\ ~FallbackInvoked
          /\ result.route = "gemini:max_iterations_with_tools"
          /\ result.answer = GenericPartialAnswer
          /\ result.tool_calls = tool_calls_log

C5_Witness ==
  /\ Returned /\ LoopEndedWithoutText
  /\ tool_calls_log # <<>> /\ ~HasMessage(tool_result)
  /\ result.answer = GenericPartialAnswer

\* C6: if a model call raises after at least one tool call was executed,
\* the result carries the tool-call log and is never a fallback:rag result
\* with an empty tool_calls list.
C6_PartialWorkKept ==
  (Returned /\ failure = "model" /\ tool_calls_log # <<>>)
    => /\ result.tool_calls = tool_calls_log
       /\ result.route # "fallback:rag"

\* C7: when the model returns final text, the run ends with that text as
\* answer, route gemini:agentic_function_calling, iterations = executed tool
\* calls + 1 (between 1 and 10), and tool_calls the log of this run.
C7_FinalTextReturned ==
  (Returned /\ response.kind = "text" /\ failure = "none")
    => /\ result.answer = response.text
       /\ result.route = "gemini:agentic_function_calling"
       /\ result.iterations = toolExecs + 1
       /\ result.iterations \in 1..MaxIterations
       /\ result.tool_calls = tool_calls_log

C9_OrderIdBypassesAuth ==
  (Finished /\ router_info.intent \in PRIVATE_INTENTS
            /\ router_info.order_id # None /\ user_id = None)
    => /\ Returned => result.route # "auth:user_id_required"
       /\ env # {} => modelCalls > 0

\* C10: a chitchat or date_query message gets the canned answer (route
\* builtin:chitchat or builtin:date, iterations 0, no tool calls) without
\* any model, tool or retrieval call, whatever the identity and credentials.
C10_BuiltinShortCircuit ==
  (router_info.intent \in {"chitchat", "date_query"})
    => /\ modelCalls = 0 /\ toolExecs = 0 /\ ragQueries = <<>>
       /\ pc \in {"start", "returned"}
       /\ Returned =>
            /\ result.route = IF router_info.intent = "chitchat"
                                THEN "builtin:chitchat" ELSE "builtin:date"
            /\ result.answer = IF router_info.intent = "chitchat"
                                 THEN ChitchatAnswer(user_message) ELSE DateAnswer(Today)
            /\ result.iterations = 0
            /\ result.tool_calls = <<>>

C10_Witness ==
  /\ Returned
  /\ router_info.intent = "date_query"
  /\ user_id = None
  /\ env = {}
  /\ result.route = "builtin:date"

\* C15: every result carries one route tag and the tag tells how the answer
\* was produced: builtin:*, auth:* and error:* mean no model call and no tool
\* call; gemini:agentic_function_calling means the answer is the model's final
\* text; gemini:max_iterations_with_tools and gemini:error_with_partial_results
\* mean tool_calls holds at least one call; fallback:rag means the answer is
\* the retrieval answerer's output for the original message.
C15_RouteIdentifiesStrategy ==
  Returned =>
    /\ result.route \in {"builtin:chitchat", "builtin:date", "auth:user_id_required",
                         "error:no_api_key", "gemini:agentic_function_calling",
                         "gemini:max_iterations_with_tools",
                         "gemini:error_with_partial_results", "fallback:rag"}
    /\ result.route \in {"builtin:chitchat", "builtin:date", "auth:user_id_required",
                         "error:no_api_key"}
         => modelCalls = 0 /\ toolExecs = 0
    /\ result.route = "gemini:agentic_function_calling"
         => response.kind = "text" /\ result.answer = response.text
    /\ result.route \in {"gemini:max_iterations_with_tools",
                         "gemini:error_with_partial_results"}
         => Len(result.tool_calls) >= 1
    /\ result.route = "fallback:rag"
         => /\ ragQueries[Len(ragQueries)] = <<"fallback", user_message>>
            /\ result.answer = RagText(user_message)

C15_Witness ==
  /\ Returned
  /\ result.route = "fallback:rag"
  /\ user_message = <<"shipping">>
  /\ Len(ragQueries) = 2
  /\ ragQueries[1] = <<"tool", <<"shipping policy">> >>
  /\ result.answer = "rag answer on shipping"

\* C16: the dispatcher never raises: for every tool of the schema,
\* search_policy_docs included, an exception of the underlying tool comes
\* back in band as {error: <string>}, so no execute_tool_call of a request
\* ends in an exception.
C16_DispatcherNeverRaises == failure # "tool"

\* the latest tool result of the request is the found=false envelope of
\* get_troubleshooting_steps
StepsNotFound ==
  /\ tool_calls_log # <<>>
  /\ tool_calls_log[Len(tool_calls_log)].tool = "get_troubleshooting_steps"
  /\ IsDict(tool_result)
  /\ "found" \in DOMAIN tool_result
  /\ tool_result.found = FALSE

\* C17: a request in which get_troubleshooting_steps returned found=false does
\* not end on the not-found message: the retrieval fallback is run and the
\* final answer comes from the Retrieval-Augmented Answerer.
C17_NotFoundFallsBack ==
  (Returned /\ StepsNotFound)
    => /\ ragQueries # <<>>
       /\ ragQueries[Len(ragQueries)] = <<"fallback", user_message>>
       /\ result.route = "fallback:rag"
       /\ result.answer # NoStepsMessage

\* C25: the tool-call log only grows, by one record at a time, and a record
\* holds the tool name and the arguments that the model requested when the
\* record was made: running the tool, with its injection of `today`, leaves
\* the logged args as requested.
C25_LogKeepsRequest ==
  [][ /\ Len(tool_calls_log') >= Len(tool_calls_log)
      /\ SubSeq(tool_calls_log', 1, Len(tool_calls_log)) = tool_calls_log
      /\ Len(tool_calls_log') > Len(tool_calls_log)
           => /\ Len(tool_calls_log') = Len(tool_calls_log) + 1
              /\ tool_calls_log'[Len(tool_calls_log')] =
                   [tool |-> response.name, args |-> response.args] ]_vars

\* C27: every call of a date-dependent tool (check_return_eligibility,
\* check_refund_possibility, check_warranty_status) gets the run's own today,
\* whatever arguments the model put in its request.  The arguments handed to
\* tool_func.invoke are those of the log record.
C27_ToolsUseRunToday ==
  \A i \in DOMAIN tool_calls_log :
    tool_calls_log[i].tool \in DateTools
      => /\ "today" \in DOMAIN tool_calls_log[i].args
         /\ tool_calls_log[i].args.today = Today

\* calls of handle_user_message_fallback made so far in the run
FallbackCalls ==
  Cardinality({ i \in DOMAIN ragQueries : ragQueries[i][1] = "fallback" })

\* C29: within one run the Fallback Chain is entered at most once:
\* handle_user_message_fallback, and with it the retrieval answerer on the
\* fallback path, is invoked no more than one time.
C29_FallbackAtMostOnce == FallbackCalls <= 1

\* ------------------------------------------------------------ guardrails
\* keyword kw occurs in the raw message m, whatever the case of its letters
Contains(m, kw) ==
  \E i \in DOMAIN m : kw = Lower(m[i]) \/ kw \in SubPhrases(Lower(m[i]))

ContainsAny(m, kws) == \E kw \in kws : Contains(m, kw)

\* m is empty or all whitespace
IsBlank(m) == \A i \in DOMAIN m : m[i] \in Whitespace

Guarded == gr # NoneDict

\* C12: every message that contains a safety-blocklist term, in any letter
\* case, is blocked with reason safety, whatever else it contains.
C12_SafetyWins ==
  (Guarded /\ ContainsAny(user_message, BLOCKED_KEYWORDS))
    => /\ gr.allowed = FALSE
       /\ gr.reason = "safety"

C12_Witness ==
  /\ Guarded
  /\ user_message = <<"order", "BOMB">>
  /\ ContainsAny(user_message, ECOMMERCE_KEYWORDS)
  /\ gr.reason = "safety"

\* C13: the reason is that of the first matching rule in the order empty,
\* safety, inappropriate, out_of_domain; the message is allowed exactly when
\* no rule matches; a non-empty message without safety or inappropriate term
\* is out_of_domain exactly when it has no domain and no chitchat keyword.
C13_FirstMatchingRule ==
  Guarded =>
    LET m       == user_message
        empty   == IsBlank(m)
        safety  == ContainsAny(m, BLOCKED_KEYWORDS)
        inappr  == ContainsAny(m, DATING_KEYWORDS \cup SEXUAL_KEYWORDS \cup ROMANTIC_PHRASES)
        domain  == ContainsAny(m, ECOMMERCE_KEYWORDS)
        chat    == ContainsAny(m, CHITCHAT_KEYWORDS)
    IN  /\ gr.reason \in {"empty", "safety", "inappropriate", "out_of_domain", None}
        /\ gr.allowed <=> gr.reason = None
        /\ gr.reason = "empty" <=> empty
        /\ gr.reason = "safety" <=> (~empty /\ safety)
        /\ gr.reason = "inappropriate" <=> (~empty /\ ~safety /\ inappr)
        /\ gr.reason = "out_of_domain"
             <=> (~empty /\ ~safety /\ ~inappr /\ ~domain /\ ~chat)

C13_Witness ==
  /\ Guarded
  /\ user_message = <<"asdkjasd alkjd">>
  /\ gr.allowed = FALSE
  /\ gr.reason = "out_of_domain"

\* C28: a message that detect_intent labels chitchat or date_query is allowed
\* by apply_guardrails, so the orchestrator's built-in answer for it can be
\* reached through the chat endpoint.
C28_BuiltinsAllowed ==
  Guarded =>
    (detect_intent(user_message).intent \in {"chitchat", "date_query"} => gr.allowed)

\* ----------------------------------------------------------- chat endpoint
\* C11: when apply_guardrails blocks the message of a request, the request
\* does not reach the orchestrator (no handle_user_message call, hence no
\* model, tool or retrieval call) and the response has guardrail_triggered
\* true, guardrail_reason the reason, route "guardrail:<reason>", no tool
\* calls and iterations 0.
C11_GuardrailHardStop ==
  [][ (~apply_guardrails(user_message').allowed)
        => /\ handled' = handled
           /\ modelCalls' = modelCalls /\ toolExecs' = toolExecs
           /\ ragQueries' = ragQueries
           /\ chat_response'.guardrail_triggered = TRUE
           /\ chat_response'.guardrail_reason = apply_guardrails(user_message').reason
           /\ chat_response'.route =
                GuardrailRoute(apply_guardrails(user_message').reason)
           /\ chat_response'.tool_calls = <<>>
           /\ chat_response'.iterations = 0 ]_vars

C11_Witness ==
  /\ user_message = <<"order", "BOMB">>
  /\ gr.allowed = FALSE
  /\ chat_response.guardrail_triggered = TRUE
  /\ chat_response.route = "guardrail:safety"
  /\ Len(Requests) = 2
  /\ Len(handled) = 1

\* C14: when the same normalized message is sent twice in a session and both
\* requests are answered, the second response has the answer, intent and
\* route of the first, from_cache true, and the orchestrator has run once.
C14_CacheIdempotence ==
  ( /\ Len(db_messages) = 4
    /\ gr # NoneDict /\ gr.allowed
    /\ db_messages[2].role = "assistant" /\ db_messages[4].role = "assistant"
    /\ db_messages[2].intent # "guardrail_response"
    /\ Text(db_messages[1].content) = Text(db_messages[3].content) )
    => /\ chat_response.from_cache = TRUE
       /\ Len(handled) = 1
       /\ chat_response.answer = db_messages[2].content
       /\ chat_response.intent = db_messages[2].intent
       /\ chat_response.route = db_messages[2].route

\* the texts of the user messages the guardrail blocked in this session (a
\* message blocked as empty has no text)
BlockedTexts ==
  { db_messages[k].content :
      k \in { j \in DOMAIN db_messages :
                /\ db_messages[j].intent = "guardrail_blocked"
                /\ db_messages[j].route # "guardrail:empty" } }

\* C26: the text of a message the guardrail blocked is never sent to the
\* model: in every orchestrator run that reaches model.start_chat, neither
\* the user turn nor a user turn of the history passed to start_chat is a
\* blocked message of the session.
C26_BlockedNeverSent ==
  \A i \in DOMAIN handled :
    ReachesStartChat(handled[i].user_message, handled[i].user_id, env)
      => /\ handled[i].user_message \notin BlockedTexts
         /\ \A j \in DOMAIN StartChatHistory(i) :
              StartChatHistory(i)[j].role = "user"
                => StartChatHistory(i)[j].parts[1].text \notin BlockedTexts

\* ------------------------------------------------------------------ router
Routed == router_info # NoneDict

\* the predicates of the cascade, by the label they give
Matches(m) ==
  [ troubleshooting    |-> is_troubleshooting_issue(m),
    chitchat           |-> is_chitchat(m),
    date_query         |-> AnyOf(m, {"date today", "today's date", "what day is it"}),
    order_status       |-> \/ Has(m, "where is my order") \/ Has(m, "track my order")
                           \/ (Has(m, "order") /\ AnyOf(m, {"status", "tracking"}))
                           \/ (ContainsAny(m, OrderIdTokens) /\ Has(m, "status")),
    policy_question    |-> Has(m, "policy"),
    refund             |-> AnyOf(m, {"refund", "money back", "get my money"}),
    return_eligibility |-> AnyOf(m, {"return", "exchange", "replace"}),
    warranty_status    |-> AnyOf(m, {"warranty", "guarantee"}),
    product_search     |-> \/ (detect_category(m) # None /\ AnyOf(m, SearchVerbs))
                           \/ AnyOf(m, CatalogPhrases)
                           \/ AnyOf(m, SellPhrases)
                           \/ (Has(m, "products") /\ Has(m, "sell")) ]

Priority ==
  <<"troubleshooting", "chitchat", "date_query", "order_status", "policy_question",
    "refund", "return_eligibility", "warranty_status", "product_search">>

\* C18: the label is that of the first predicate that matches, in the order
\* troubleshooting, chitchat, date_query, order_status, policy_question,
\* refund, return_eligibility, warranty_status, product_search, and
\* general_rag when none matches; a message with a troubleshooting phrase and
\* a chitchat phrase is labelled troubleshooting; the label is one of the ten.
C18_FirstMatchWins ==
  Routed =>
    LET hits == { i \in DOMAIN Priority : Matches(user_message)[Priority[i]] } IN
      /\ router_info.intent \in PRIVATE_INTENTS \cup PUBLIC_INTENTS
      /\ hits = {} => router_info.intent = "general_rag"
      /\ hits # {} =>
           router_info.intent = Priority[CHOOSE i \in hits : \A k \in hits : i <= k]
      /\ (is_troubleshooting_issue(user_message) /\ is_chitchat(user_message))
           => router_info.intent = "troubleshooting"

C18_Witness ==
  /\ Routed
  /\ user_message = <<"thanks", "not working">>
  /\ is_chitchat(user_message)
  /\ router_info.intent = "troubleshooting"

\* the upper-cased first ORD<digits> token of the raw message, or None
FirstOrderId(m) ==
  LET hits == { i \in DOMAIN m : Lower(m[i]) \in OrderIdTokens } IN
    IF hits = {} THEN None
    ELSE Upper(m[CHOOSE i \in hits : \A k \in hits : i <= k])

\* C19 as stated: for every message and whatever the label, order_id is the
\* upper-cased first ORD<digits> token of the message, or None if it has none.
C19_Original == Routed => router_info.order_id = FirstOrderId(user_message)

\* C19: for every message not labelled chitchat or date_query, order_id is
\* the upper-cased first ORD<digits> token of the message (matched in any
\* case) or None if it has none; for chitchat and date_query it is None.
C19_OrderIdSlot ==
  Routed =>
    /\ router_info.intent \notin {"chitchat", "date_query"}
         => router_info.order_id = FirstOrderId(user_message)
    /\ router_info.intent \in {"chitchat", "date_query"}
         => router_info.order_id = None
    /\ FirstOrderId(user_message) = None => router_info.order_id = None

C19_Witness ==
  /\ Routed
  /\ user_message = <<"Ord1001", "ORD1002">>
  /\ router_info.intent = "general_rag"
  /\ router_info.order_id = "ORD1001"

\* ------------------------------------------------------------ returns tool
Checked == eligibility # NoneDict /\ "eligible" \in DOMAIN eligibility

\* C20: an order that has no delivery_date, or whose status is not
\* "delivered" (a shipped order with an estimated delivery date later than
\* today, say), is never reported eligible.
C20_UndeliveredNeverEligible ==
  ( /\ Checked
    /\ order # NoneDict
    /\ (order.delivery_date \in {None, ""} \/ order.status # "delivered") )
    => eligibility.eligible = FALSE

\* the order was delivered on or before today, and both dates parse
DeliveredBy ==
  /\ order # NoneDict
  /\ order.status = "delivered"
  /\ order.delivery_date \in Dates
  /\ today_str \in Dates
  /\ DayOf(order.delivery_date) <= DayOf(today_str)

\* C21: for an order delivered d >= 0 days before today the tool returns
\* days_since_delivery = d and eligible = (d <= 7): day 7 is eligible, day 8
\* is not, and an order delivered 3 days before 2025-12-05 is eligible with
\* days_since_delivery 3.
C21_SevenDayWindow ==
  (eligibility # NoneDict /\ DeliveredBy) =>
    LET d == DayOf(today_str) - DayOf(order.delivery_date) IN
      /\ eligibility.found = TRUE
      /\ eligibility.days_since_delivery = d
      /\ eligibility.eligible <=> (d <= 7)
      /\ (order.delivery_date = "2025-12-02" /\ today_str = "2025-12-05")
           => eligibility.eligible /\ eligibility.days_since_delivery = 3
      /\ (order.delivery_date = "2025-11-28" /\ today_str = "2025-12-05")
           => eligibility.eligible /\ eligibility.days_since_delivery = 7
      /\ (order.delivery_date = "2025-11-27" /\ today_str = "2025-12-05")
           => ~eligibility.eligible /\ eligibility.days_since_delivery = 8

C21_Witness ==
  /\ eligibility # NoneDict
  /\ DeliveredBy
  /\ order.delivery_date = "2025-11-28"
  /\ today_str = "2025-12-05"
  /\ eligibility.eligible = TRUE
  /\ eligibility.days_since_delivery = 7

\* ------------------------------------------------------------- refund tool
\* both tools have been run on the order and returned a result
BothChecked ==
  /\ Checked
  /\ refund # NoneDict
  /\ "refundable" \in DOMAIN refund

\* C22: for every order id and valid today, refundable is true exactly when
\* the return tool says eligible for the same order and date, found agrees
\* between the two tools, and expected_refund_timeline is given only when
\* refundable is true.
C22_RefundableIffEligible ==
  (BothChecked /\ today_str \in Dates)
    => /\ refund.refundable <=> eligibility.eligible
       /\ refund.found <=> eligibility.found
       /\ refund.expected_refund_timeline # None => refund.refundable

C22_Witness ==
  /\ BothChecked
  /\ order # NoneDict
  /\ order.delivery_date = "2025-11-27"
  /\ today_str = "2025-12-05"
  /\ refund.found = TRUE
  /\ refund.refundable = FALSE
  /\ refund.expected_refund_timeline = None

\* ----------------------------------------------------------- warranty tool
\* the tool found the product in the order and both dates are given
WarrantyComputed ==
  /\ warranty # NoneDict
  /\ "found_product" \in DOMAIN warranty
  /\ warranty.found_product
  /\ today_str \in ValidDates
  /\ (order.delivery_date \in ValidDates \/ order.order_date \in ValidDates)

\* C23: the purchase date is the delivery date if the order has one and the
\* order date otherwise; the warranty lasts 365 days for a laptop, 180 for
\* headphones and 90 for any other category; in_warranty is
\* today <= purchase date + warranty days and days_since_purchase is
\* today - purchase date.
C23_WarrantyWindow ==
  WarrantyComputed =>
    LET purchase == IF order.delivery_date \in ValidDates
                      THEN order.delivery_date ELSE order.order_date
        days     == CASE product_id = "LAP123" -> 365
                      [] product_id = "HPH001" -> 180
                      [] OTHER                 -> 90
    IN  /\ warranty.purchase_date = purchase
        /\ warranty.days_since_purchase = DayOf(today_str) - DayOf(purchase)
        /\ warranty.in_warranty <=> (DayOf(today_str) <= DayOf(purchase) + days)
        /\ (product_id = "LAP123" /\ purchase = "2024-12-05" /\ today_str = "2025-12-05")
             => warranty.in_warranty /\ warranty.days_since_purchase = 365
        /\ (product_id = "LAP123" /\ purchase = "2024-12-04" /\ today_str = "2025-12-05")
             => ~warranty.in_warranty
        /\ (product_id = "HPH001" /\ purchase = "2025-06-07" /\ today_str = "2025-12-05")
             => ~warranty.in_warranty /\ warranty.days_since_purchase = 181

C23_Witness ==
  /\ WarrantyComputed
  /\ product_id = "LAP123"
  /\ order.delivery_date = None
  /\ order.order_date = "2024-12-04"
  /\ today_str = "2025-12-05"
  /\ warranty.purchase_date = "2024-12-04"
  /\ warranty.in_warranty = FALSE
  /\ warranty.days_since_purchase = 366

\* ------------------------------------------------------ order tools, errors
\* C24: the return, refund and warranty tools never raise for an expected
\* failure: an unknown order, an ineligible order or a `today` that is not a
\* valid YYYY-MM-DD date (a malformed non-empty string included) each give a
\* result envelope.
C24_ToolsNeverRaise ==
  /\ eligibility # ValueError
  /\ refund # ValueError
  /\ warranty # ValueError

\* ------------------------------------------------------------- user lookup
Normalized == normalized_user_id # NoneDict

\* "U" followed by three digits
IsUserIdForm(s) == Len(s) = 4 /\ s[1] = "U" /\ \A i \in 2..4 : s[i] \in Digits

\* digits, with or without a "u" or "U" in front, spaces around them allowed
IsIdentifier(uid) ==
  LET stripped == upper(strip(uid)) IN
    \/ isdigit(stripped)
    \/ stripped # <<>> /\ stripped[1] = "U" /\ isdigit(Tail(stripped))

\* C30: normalize_user_id maps every user identifier to "U" followed by three
\* digits ("0001", "u001", "U001" and "1" all become "U001"), and normalizing
\* a normalized identifier leaves it unchanged.
C30_NormalizedForm ==
  (Normalized /\ IsIdentifier(user_id)) =>
    /\ IsUserIdForm(normalized_user_id.value)
    /\ user_id \in { <<"0", "0", "0", "1">>, <<"u", "0", "0", "1">>,
                     <<"U", "0", "0", "1">>, <<"1">> }
         => normalized_user_id.value = <<"U", "0", "0", "1">>
    /\ normalize_user_id(normalized_user_id.value) = normalized_user_id.value

====
